---- MODULE Spec2Model ----
(***************************************************************************)
(* Model of the biometrics producer (producers/project_producer_gillespie) *)
(* and of the file-tailing consumer (consumers/project_consumer_gillespie).*)
(*                                                                         *)
(* The shared data file is a sequence of tokens standing for its text: one *)
(* token per JSON lexeme, per bare word, per blank and per newline.  The    *)
(* consumer's file cursor is an offset into that sequence.                  *)
(***************************************************************************)
EXTENDS Integers, Sequences, FiniteSets

\* Number of lines appended to the data file in one run of the model.
MaxLines == 2

\* Number of those lines that may reach the file in two parts.
MaxTorn == 1

(***************************************************************************)
(* Text of the data file                                                   *)
(***************************************************************************)

\* One lexeme of the file's text: kind, string payload, numeric payload.
Tok(k, s, n) == [k |-> k, s |-> s, n |-> n]

LBRACE == Tok("lbrace", "{", 0)
RBRACE == Tok("rbrace", "}", 0)
\* json.dumps separates items with ", " and keys from values with ": ".
COMMA == Tok("comma", ", ", 0)
COLON == Tok("colon", ": ", 0)
NL == Tok("nl", "\n", 0)
SP == Tok("sp", " ", 0)
Str(s) == Tok("str", s, 0)
Num(n) == Tok("num", "", n)
\* A float with two decimals, held in hundredths.
Flt(n) == Tok("float", "", n)
Word(s) == Tok("word", s, 0)
LBRACK == Tok("lbrack", "[", 0)
RBRACK == Tok("rbrack", "]", 0)
\* The value of the JSON text []: a Python list, which cannot be hashed.
EmptyList == Tok("list", "", 0)
\* Python's None.
None == Tok("none", "", 0)

\* A Python dict is a function from its keys; {} has no keys.
EmptyDict == [x \in {} |-> None]

DictSet(d, key, val) ==
    [x \in (DOMAIN d) \cup {key} |-> IF x = key THEN val ELSE d[x]]

\* dict.get(key, default)
DictGet(d, key, default) == IF key \in DOMAIN d THEN d[key] ELSE default

(***************************************************************************)
(* Producer: generate_messages and the append in main                      *)
(***************************************************************************)

\* Values drawn for random.randint / random.uniform, a few of each range.
HeartRates == {72}
StepCounts == {10, 55}
Calories == {525}
Carbs == {45}
Proteins == {20}
Fats == {10}
Durations == {30}
\* round(random.uniform(1.0, 10.0), 2), in hundredths
Distances == {525}

UPDATE_TYPE == <<"heart_rate", "steps", "diet", "exercise">>

Item(key, val) == [key |-> key, val |-> val]

\* The dicts generate_messages can yield, as their items in insertion order.
generate_messages ==
    {<<Item("heart_rate", Num(h)), Item("type", Str(UPDATE_TYPE[1]))>> :
        h \in HeartRates}
    \cup {<<Item("steps", Num(s)), Item("type", Str(UPDATE_TYPE[2]))>> :
        s \in StepCounts}
    \cup {<<Item("calories", Num(c[1])), Item("carbs", Num(c[2])),
            Item("protein", Num(c[3])), Item("fat", Num(c[4])),
            Item("type", Str(UPDATE_TYPE[3]))>> :
        c \in Calories \X Carbs \X Proteins \X Fats}
    \cup {<<Item("exercise_duration", Num(e[1])),
            Item("exercise_distance", Flt(e[2])),
            Item("type", Str(UPDATE_TYPE[4]))>> :
        e \in Durations \X Distances}

RECURSIVE DumpItems(_, _)
DumpItems(items, i) ==
    IF i > Len(items) THEN <<>>
    ELSE (IF i > 1 THEN <<COMMA>> ELSE <<>>)
         \o <<Str(items[i].key), COLON, items[i].val>>
         \o DumpItems(items, i + 1)

\* json.dumps of a flat dict.
json_dumps(items) == <<LBRACE>> \o DumpItems(items, 1) \o <<RBRACE>>

\* The lines the producer can append: json.dumps(message) + "\n".
ProducerLines == {json_dumps(m) \o <<NL>> : m \in generate_messages}

\* Lines another writer can put into the file the consumer tails: text that
\* is not JSON, a blank line, JSON that is not an object, an object naming
\* its author, an object whose author is a list.
OtherLines ==
    { <<Word("not"), SP, Word("json"), NL>>,
      <<NL>>,
      <<Num(72), NL>>,
      <<LBRACE, Str("author"), COLON, Str("ann"), RBRACE, NL>>,
      <<LBRACE, Str("author"), COLON, LBRACK, RBRACK, RBRACE, NL>> }

(***************************************************************************)
(* Consumer: reading and decoding                                          *)
(***************************************************************************)

IsSpace(t) == t.k \in {"sp", "nl"}

\* str.strip(): drop leading and trailing whitespace.
RECURSIVE strip(_)
strip(s) ==
    IF s = <<>> THEN <<>>
    ELSE IF IsSpace(s[1]) THEN strip(Tail(s))
    ELSE IF IsSpace(s[Len(s)]) THEN strip(SubSeq(s, 1, Len(s) - 1))
    ELSE s

\* Faulty variant: read() in place of readline(), all the text left.
readline_all(f, c) == SubSeq(f, c + 1, Len(f))

\* file.readline() with the cursor at offset c: the text up to and including
\* the next newline, or all the text left when no newline follows.
readline(f, c) ==
    LET rest == SubSeq(f, c + 1, Len(f))
        nls == {i \in 1..Len(rest) : rest[i].k = "nl"}
    IN  IF nls = {} THEN rest
        ELSE SubSeq(rest, 1, CHOOSE i \in nls : \A j \in nls : i <= j)

\* Results of json.loads: a JSONDecodeError, a value that is no dict, a dict.
DecodeError == [ok |-> FALSE, isdict |-> FALSE, d |-> EmptyDict]
NonDict == [ok |-> TRUE, isdict |-> FALSE, d |-> EmptyDict]
Dict(d) == [ok |-> TRUE, isdict |-> TRUE, d |-> d]

IsScalar(t) == t.k \in {"num", "float", "str"}

\* The tokens i, i + 1 of t are the JSON text [].
IsEmptyArray(t, i) ==
    i + 1 <= Len(t) /\ t[i].k = "lbrack" /\ t[i + 1].k = "rbrack"

\* After a member: the closing brace, which must end the text, or a comma
\* and the next member.
RECURSIVE ParseMembers(_, _, _)
ParseNext(t, n, d) ==
    IF n > Len(t) THEN DecodeError
    ELSE IF t[n].k = "rbrace"
    THEN (IF n = Len(t) THEN Dict(d) ELSE DecodeError)
    ELSE IF t[n].k = "comma" THEN ParseMembers(t, n + 1, d)
    ELSE DecodeError

\* The members of a JSON object from token i on, up to the closing brace,
\* which must end the text.  A member's value is a scalar or [].  A repeated
\* key keeps its last value.
ParseMembers(t, i, d) ==
    IF i + 3 > Len(t) THEN DecodeError
    ELSE IF t[i].k # "str" \/ t[i + 1].k # "colon" THEN DecodeError
    ELSE IF IsScalar(t[i + 2])
    THEN ParseNext(t, i + 3, DictSet(d, t[i].s, t[i + 2]))
    ELSE IF IsEmptyArray(t, i + 2)
    THEN ParseNext(t, i + 4, DictSet(d, t[i].s, EmptyList))
    ELSE DecodeError

\* json.loads: surrounding whitespace is ignored; the text must be exactly
\* one JSON value.
json_loads(s) ==
    LET t == strip(s)
    IN  IF t = <<>> THEN DecodeError
        ELSE IF Len(t) = 1 THEN (IF IsScalar(t[1]) THEN NonDict ELSE DecodeError)
        ELSE IF Len(t) = 2 /\ IsEmptyArray(t, 1) THEN NonDict
        ELSE IF t[1].k # "lbrace" THEN DecodeError
        ELSE IF Len(t) = 2
        THEN (IF t[2].k = "rbrace" THEN Dict(EmptyDict) ELSE DecodeError)
        ELSE ParseMembers(t, 2, EmptyDict)

(***************************************************************************)
(* State                                                                   *)
(***************************************************************************)

VARIABLES
    file,           \* text of DATA_FILE that a reader can see
    fileExists,     \* DATA_FILE.exists()
    pending,        \* text of a write that is not visible to readers yet
    nAppends,       \* lines written so far
    nTorn,          \* lines written in two parts so far
    appended,       \* history: each written line and the offset it went to
    ppc,            \* producer: "run" in main's loop, "done" after it
    plog,           \* producer: what it logged
    cpc,            \* consumer: where main is
    fh,             \* consumer: "unopened", "open" or "closed" file object
    cursor,         \* consumer: offset of the file object
    line,           \* consumer: the value readline returned last
    author_counts,  \* consumer: author -> number of messages
    history,        \* consumer: update_chart.history
    clog,           \* consumer: its error lines and the lines ending a step
    plt_interactive, \* consumer: Matplotlib's interactive mode (plt.ion/ioff)
    seekPos,        \* history: the offset seek(0, SEEK_END) moved to, -1 before
    startMissing,   \* history: the file was absent when main looked for it
    everRead,       \* history: readline was called
    handed          \* history: the lines given to process_message, with offsets

vars == <<file, fileExists, pending, nAppends, nTorn, appended, ppc, plog,
          cpc, fh, cursor, line, author_counts, history, clog,
          plt_interactive, seekPos, startMissing, everRead, handed>>

\* The data file and the producer.
fileVars == <<file, fileExists, pending, nAppends, nTorn, appended, ppc, plog>>
consumerVars == <<cpc, fh, cursor, line, author_counts, history, clog,
                  plt_interactive, seekPos, startMissing, everRead, handed>>

\* The data file is absent, or is there and empty, when the programs start.
Init ==
    /\ file = <<>>
    /\ fileExists \in BOOLEAN
    /\ pending = <<>>
    /\ nAppends = 0
    /\ nTorn = 0
    /\ appended = <<>>
    /\ ppc = "run"
    /\ plog = <<>>
    /\ cpc = "start"
    /\ fh = "unopened"
    /\ cursor = 0
    /\ line = <<>>
    /\ author_counts = EmptyDict
    /\ history = [heart_rate |-> <<>>, steps |-> <<>>,
                  exercise_duration |-> <<>>, exercise_distance |-> <<>>,
                  msg_count |-> 0]
    /\ clog = <<>>
    /\ plt_interactive = TRUE
    /\ seekPos = -1
    /\ startMissing = FALSE
    /\ everRead = FALSE
    /\ handed = <<>>

(***************************************************************************)
(* Writers                                                                 *)
(***************************************************************************)

\* Faulty variant: the file is opened with "w", which truncates it.
AppendText_truncate(text) ==
    /\ file' = text
    /\ fileExists' = TRUE

\* open("a") creates the file if needed; the text lands at its end.
AppendText(text) ==
    /\ file' = file \o text
    /\ fileExists' = TRUE

Written(l) ==
    /\ nAppends' = nAppends + 1
    /\ appended' = Append(appended, [pos |-> Len(file), text |-> l])

PLog(events) == plog' = plog \o events

\* Producer main, one turn of the for loop: the next generated message is
\* logged, dumped and written with its newline, and the file is closed.
ProducerWrite ==
    /\ ppc = "run"
    /\ pending = <<>>
    /\ nAppends < MaxLines
    /\ \E l \in ProducerLines : AppendText(l) /\ Written(l)
    /\ PLog(<<"info: message">>)
    /\ UNCHANGED <<pending, nTorn, ppc, consumerVars>>

\* Faulty variant: the failure is logged inside the loop, which goes on.
ProducerWriteFails_retries ==
    /\ ppc = "run"
    /\ pending = <<>>
    /\ fileExists' \in {fileExists, TRUE}
    /\ PLog(<<"info: message", "error: unexpected error">>)
    /\ UNCHANGED <<file, pending, nAppends, nTorn, appended, ppc,
                   consumerVars>>

\* Producer main, a turn of the for loop in which open or write raises
\* (OSError): nothing is written, though open may have created the file;
\* "except Exception" logs the error, the finally clause the shutdown, and
\* main returns.
ProducerWriteFails ==
    /\ ppc = "run"
    /\ pending = <<>>
    /\ fileExists' \in {fileExists, TRUE}
    /\ PLog(<<"info: message", "error: unexpected error",
              "info: producer shutting down">>)
    /\ ppc' = "done"
    /\ UNCHANGED <<file, pending, nAppends, nTorn, appended, consumerVars>>

\* Some other writer appends a line to the file.
OtherWrite ==
    /\ pending = <<>>
    /\ nAppends < MaxLines
    /\ \E l \in OtherLines : AppendText(l) /\ Written(l)
    /\ UNCHANGED <<pending, nTorn, ppc, plog, consumerVars>>

\* A producer write of which readers see only the first k tokens at first.
ProducerWriteFirstPart ==
    /\ ppc = "run"
    /\ pending = <<>>
    /\ nAppends < MaxLines
    /\ nTorn < MaxTorn
    /\ nTorn' = nTorn + 1
    /\ \E l \in ProducerLines : \E k \in 1..(Len(l) - 1) :
          /\ AppendText(SubSeq(l, 1, k))
          /\ pending' = SubSeq(l, k + 1, Len(l))
          /\ Written(l)
    /\ PLog(<<"info: message">>)
    /\ UNCHANGED <<ppc, consumerVars>>

\* The rest of that write becomes visible.
ProducerWriteRest ==
    /\ pending # <<>>
    /\ AppendText(pending)
    /\ pending' = <<>>
    /\ UNCHANGED <<nAppends, nTorn, appended, ppc, plog, consumerVars>>

(***************************************************************************)
(* Consumer: main                                                          *)
(***************************************************************************)

Log(events) == clog' = clog \o events

\* Faulty variant: the error is logged but sys.exit(1) is missing.
ConsumerCheckExists_noExit ==
    /\ cpc = "start"
    /\ cpc' = "open"
    /\ IF fileExists
       THEN UNCHANGED <<clog, startMissing>>
       ELSE /\ startMissing' = TRUE
            /\ Log(<<"error: data file does not exist">>)
    /\ UNCHANGED <<fileVars, plt_interactive, fh, cursor, line, author_counts,
                   history, seekPos, everRead, handed>>

\* main, lines 225-230: without the file, log an error and sys.exit(1).
ConsumerCheckExists ==
    /\ cpc = "start"
    /\ IF fileExists
       THEN /\ cpc' = "open"
            /\ UNCHANGED <<clog, startMissing>>
       ELSE /\ cpc' = "exited"
            /\ startMissing' = TRUE
            /\ Log(<<"error: data file does not exist">>)
    /\ UNCHANGED <<fileVars, plt_interactive, fh, cursor, line, author_counts,
                   history, seekPos, everRead, handed>>

\* open(DATA_FILE, "r"): the file object starts at offset 0.
ConsumerOpen ==
    /\ cpc = "open"
    /\ fileExists
    /\ fh' = "open"
    /\ cursor' = 0
    /\ cpc' = "seek"
    /\ UNCHANGED <<fileVars, plt_interactive, line, author_counts, history,
                   clog, seekPos, startMissing, everRead, handed>>

\* Faulty variant: the seek to the end is left out.
ConsumerSeek_stay ==
    /\ cpc = "seek"
    /\ seekPos' = Len(file)
    /\ cpc' = "read"
    /\ UNCHANGED <<fileVars, plt_interactive, fh, cursor, line, author_counts,
                   history, clog, startMissing, everRead, handed>>

\* file.seek(0, os.SEEK_END)
ConsumerSeek ==
    /\ cpc = "seek"
    /\ cursor' = Len(file)
    /\ seekPos' = Len(file)
    /\ cpc' = "read"
    /\ UNCHANGED <<fileVars, plt_interactive, fh, line, author_counts, history,
                   clog, startMissing, everRead, handed>>

\* Faulty variant: the line is tested without strip().
ConsumerReadline_noStrip ==
    /\ cpc = "read"
    /\ LET l == readline(file, cursor)
       IN  /\ line' = l
           /\ cursor' = cursor + Len(l)
           /\ IF l # <<>>
              THEN /\ cpc' = "process"
                   /\ handed' = Append(handed, [pos |-> cursor, text |-> l])
              ELSE /\ cpc' = "sleep"
                   /\ UNCHANGED handed
    /\ everRead' = TRUE
    /\ UNCHANGED <<fileVars, plt_interactive, fh, author_counts, history, clog,
                   seekPos, startMissing>>

\* The head of the while loop: readline, then the test of line.strip().
ConsumerReadline ==
    /\ cpc = "read"
    /\ \E l \in {readline(file, cursor)} :
          /\ line' = l
          /\ cursor' = cursor + Len(l)
          /\ IF strip(l) # <<>>
             THEN /\ cpc' = "process"
                  /\ handed' = Append(handed, [pos |-> cursor, text |-> l])
             ELSE /\ cpc' = "sleep"
                  /\ UNCHANGED handed
    /\ everRead' = TRUE
    /\ UNCHANGED <<fileVars, plt_interactive, fh, author_counts, history, clog,
                   seekPos, startMissing>>

\* Faulty variant: an empty read leaves the loop ("break" for "continue").
ConsumerSleep_break ==
    /\ cpc = "sleep"
    /\ cpc' = "closed"
    /\ plt_interactive' = FALSE
    /\ fh' = "closed"
    /\ Log(<<"info: consumer closed">>)
    /\ UNCHANGED <<fileVars, cursor, line, author_counts, history, seekPos,
                   startMissing, everRead, handed>>

\* Faulty variant: after the sleep the file is read from its start again.
ConsumerSleep_rewind ==
    /\ cpc = "sleep"
    /\ cpc' = "read"
    /\ cursor' = 0
    /\ UNCHANGED <<fileVars, plt_interactive, fh, line, author_counts, history,
                   clog, seekPos, startMissing, everRead, handed>>

\* time.sleep(0.5); continue
ConsumerSleep ==
    /\ cpc = "sleep"
    /\ cpc' = "read"
    /\ UNCHANGED <<fileVars, plt_interactive, fh, cursor, line, author_counts,
                   history, clog, seekPos, startMissing, everRead, handed>>

(***************************************************************************)
(* Consumer: process_message and update_chart                              *)
(***************************************************************************)

\* hash(author) succeeds.
Hashable(v) == v.k # "list"

\* update_chart.latest_msg is read with getattr(..., {}) and assigned nowhere
\* in the program, so update_chart always sees the default.
latest_msg == EmptyDict

\* Faulty variant: no handler for JSONDecodeError, the error reaches main's handler.
ProcessMessage_raises ==
    /\ cpc = "process"
    /\ LET r == json_loads(line)
       IN  IF ~r.ok
           THEN /\ Log(<<"error: unexpected error", "info: consumer closed">>)
                /\ cpc' = "closed"
                /\ fh' = "closed"
                /\ plt_interactive' = FALSE
                /\ UNCHANGED author_counts
           ELSE IF ~r.isdict
           THEN /\ Log(<<"error: expected a dictionary">>)
                /\ cpc' = "read"
                /\ UNCHANGED <<author_counts, fh, plt_interactive>>
           ELSE LET author == DictGet(r.d, "author", Str("unknown"))
                IN  IF ~Hashable(author)
                    THEN /\ Log(<<"error: processing message">>)
                         /\ cpc' = "read"
                         /\ UNCHANGED <<author_counts, fh, plt_interactive>>
                    ELSE /\ author_counts' =
                               DictSet(author_counts, author,
                                       DictGet(author_counts, author, 0) + 1)
                         /\ cpc' = "chart"
                         /\ UNCHANGED <<clog, fh, plt_interactive>>
    /\ UNCHANGED <<fileVars, cursor, line, history, seekPos, startMissing,
                   everRead, handed>>

\* Faulty variant: the author is counted before the line is decoded.
ProcessMessage_countsFirst ==
    /\ cpc = "process"
    /\ LET r == json_loads(line)
           author == DictGet(r.d, "author", Str("unknown"))
       IN  /\ author_counts' =
                 DictSet(author_counts, author,
                         DictGet(author_counts, author, 0) + 1)
           /\ IF ~r.ok
              THEN Log(<<"error: invalid JSON message">>) /\ cpc' = "read"
              ELSE IF ~r.isdict
              THEN Log(<<"error: expected a dictionary">>) /\ cpc' = "read"
              ELSE cpc' = "chart" /\ UNCHANGED clog
    /\ UNCHANGED <<fileVars, plt_interactive, fh, cursor, line, history,
                   seekPos, startMissing, everRead, handed>>

\* Faulty variant: no isinstance test; .get on a value that is no dict raises
\* AttributeError, which "except Exception" logs.
ProcessMessage_noDictCheck ==
    /\ cpc = "process"
    /\ LET r == json_loads(line)
       IN  IF ~r.ok
           THEN /\ Log(<<"error: invalid JSON message">>)
                /\ cpc' = "read"
                /\ UNCHANGED author_counts
           ELSE IF ~r.isdict
           THEN /\ Log(<<"error: processing message">>)
                /\ cpc' = "read"
                /\ UNCHANGED author_counts
           ELSE LET author == DictGet(r.d, "author", Str("unknown"))
                IN  IF ~Hashable(author)
                    THEN /\ Log(<<"error: processing message">>)
                         /\ cpc' = "read"
                         /\ UNCHANGED author_counts
                    ELSE /\ author_counts' =
                               DictSet(author_counts, author,
                                       DictGet(author_counts, author, 0) + 1)
                         /\ cpc' = "chart"
                         /\ UNCHANGED clog
    /\ UNCHANGED <<fileVars, plt_interactive, fh, cursor, line, history,
                   seekPos, startMissing, everRead, handed>>

\* process_message up to the call of update_chart: decode the line, and for
\* a dict count its author.  A list cannot be a key of author_counts:
\* author_counts[author] raises TypeError, which "except Exception" logs.
ProcessMessage ==
    /\ cpc = "process"
    /\ \E r \in {json_loads(line)} :
          IF ~r.ok
          THEN /\ Log(<<"error: invalid JSON message">>)
               /\ cpc' = "read"
               /\ UNCHANGED author_counts
          ELSE IF ~r.isdict
          THEN /\ Log(<<"error: expected a dictionary">>)
               /\ cpc' = "read"
               /\ UNCHANGED author_counts
          ELSE \E author \in {DictGet(r.d, "author", Str("unknown"))} :
                  IF ~Hashable(author)
                  THEN /\ Log(<<"error: processing message">>)
                       /\ cpc' = "read"
                       /\ UNCHANGED author_counts
                  ELSE /\ author_counts' =
                             DictSet(author_counts, author,
                                     DictGet(author_counts, author, 0) + 1)
                       /\ cpc' = "chart"
                       /\ UNCHANGED clog
    /\ UNCHANGED <<fileVars, plt_interactive, fh, cursor, line, history,
                   seekPos, startMissing, everRead, handed>>

\* Faulty variant: a series is extended only when the message has its field.
UpdateHistory_noPlaceholder(h, msg) ==
    [msg_count |-> h.msg_count + 1,
     heart_rate |->
        IF "heart_rate" \in DOMAIN msg
        THEN Append(h.heart_rate, msg["heart_rate"]) ELSE h.heart_rate,
     steps |->
        IF "steps" \in DOMAIN msg
        THEN Append(h.steps, msg["steps"]) ELSE h.steps,
     exercise_duration |->
        IF "exercise" \in DOMAIN msg
        THEN Append(h.exercise_duration,
                    DictGet(msg["exercise"], "duration", None))
        ELSE h.exercise_duration,
     exercise_distance |->
        IF "exercise" \in DOMAIN msg
        THEN Append(h.exercise_distance,
                    DictGet(msg["exercise"], "distance", None))
        ELSE h.exercise_distance]

\* Faulty variant: msg_count is not incremented.
UpdateHistory_noCount(h, msg) ==
    [msg_count |-> h.msg_count,
     heart_rate |->
        Append(h.heart_rate,
               IF "heart_rate" \in DOMAIN msg THEN msg["heart_rate"] ELSE None),
     steps |->
        Append(h.steps, IF "steps" \in DOMAIN msg THEN msg["steps"] ELSE None),
     exercise_duration |->
        Append(h.exercise_duration,
               IF "exercise" \in DOMAIN msg
               THEN DictGet(msg["exercise"], "duration", None) ELSE None),
     exercise_distance |->
        Append(h.exercise_distance,
               IF "exercise" \in DOMAIN msg
               THEN DictGet(msg["exercise"], "distance", None) ELSE None)]

\* update_chart, lines 70-115: count the message and extend every series.
UpdateHistory(h, msg) ==
    [msg_count |-> h.msg_count + 1,
     heart_rate |->
        Append(h.heart_rate,
               IF "heart_rate" \in DOMAIN msg THEN msg["heart_rate"] ELSE None),
     steps |->
        Append(h.steps, IF "steps" \in DOMAIN msg THEN msg["steps"] ELSE None),
     exercise_duration |->
        Append(h.exercise_duration,
               IF "exercise" \in DOMAIN msg
               THEN DictGet(msg["exercise"], "duration", None) ELSE None),
     exercise_distance |->
        Append(h.exercise_distance,
               IF "exercise" \in DOMAIN msg
               THEN DictGet(msg["exercise"], "distance", None) ELSE None)]

UpdateChart ==
    /\ cpc = "chart"
    /\ history' = UpdateHistory(history, latest_msg)
    /\ cpc' = "redraw"
    /\ UNCHANGED <<fileVars, plt_interactive, fh, cursor, line, author_counts,
                   clog, seekPos, startMissing, everRead, handed>>

\* update_chart, lines 117-161, and the return to process_message.
Redraw ==
    /\ cpc = "redraw"
    /\ Log(<<"info: chart updated">>)
    /\ cpc' = "read"
    /\ UNCHANGED <<fileVars, plt_interactive, fh, cursor, line, author_counts,
                   history, seekPos, startMissing, everRead, handed>>

\* Faulty variant: process_message has no "except Exception"; the error
\* reaches main's handler.
RedrawRaises_propagates ==
    /\ cpc = "redraw"
    /\ cpc' = "closed"
    /\ plt_interactive' = FALSE
    /\ fh' = "closed"
    /\ Log(<<"error: unexpected error", "info: consumer closed">>)
    /\ UNCHANGED <<fileVars, cursor, line, author_counts, history, seekPos,
                   startMissing, everRead, handed>>

\* Faulty variant: the handler takes back the entries of the failed message.
RedrawRaises_rollback ==
    /\ cpc = "redraw"
    /\ Log(<<"error: processing message">>)
    /\ cpc' = "read"
    /\ history' =
          [msg_count |-> history.msg_count - 1,
           heart_rate |->
              SubSeq(history.heart_rate, 1, Len(history.heart_rate) - 1),
           steps |-> SubSeq(history.steps, 1, Len(history.steps) - 1),
           exercise_duration |->
              SubSeq(history.exercise_duration, 1,
                     Len(history.exercise_duration) - 1),
           exercise_distance |->
              SubSeq(history.exercise_distance, 1,
                     Len(history.exercise_distance) - 1)]
    /\ UNCHANGED <<fileVars, plt_interactive, fh, cursor, line, author_counts,
                   seekPos, startMissing, everRead, handed>>

\* A drawing call raises: process_message's "except Exception" logs it.
RedrawRaises ==
    /\ cpc = "redraw"
    /\ Log(<<"error: processing message">>)
    /\ cpc' = "read"
    /\ UNCHANGED <<fileVars, plt_interactive, fh, cursor, line, author_counts,
                   history, seekPos, startMissing, everRead, handed>>

\* Faulty variant: main has no finally clause.
ConsumerInterrupt_noFinally ==
    /\ cpc \in {"open", "seek", "read", "sleep", "process", "chart", "redraw"}
    /\ cpc' = "closed"
    /\ fh' = IF fh = "open" THEN "closed" ELSE fh
    /\ Log(<<"info: interrupted by user">>)
    /\ UNCHANGED <<fileVars, plt_interactive, cursor, line, author_counts,
                   history, seekPos, startMissing, everRead, handed>>

\* KeyboardInterrupt inside main's try: the handler logs, the with block
\* closes the file and the finally clause leaves interactive mode
\* (plt.ioff, plt.show) and logs the close.
ConsumerInterrupt ==
    /\ cpc \in {"open", "seek", "read", "sleep", "process", "chart", "redraw"}
    /\ cpc' = "closed"
    /\ plt_interactive' = FALSE
    /\ fh' = IF fh = "open" THEN "closed" ELSE fh
    /\ Log(<<"info: interrupted by user", "info: consumer closed">>)
    /\ UNCHANGED <<fileVars, cursor, line, author_counts, history, seekPos,
                   startMissing, everRead, handed>>

\* open, seek or readline raises (OSError, UnicodeDecodeError): main's
\* "except Exception" logs it, then the finally clause runs as above.
ConsumerUnexpectedError ==
    /\ cpc \in {"open", "seek", "read"}
    /\ cpc' = "closed"
    /\ plt_interactive' = FALSE
    /\ fh' = IF fh = "open" THEN "closed" ELSE fh
    /\ Log(<<"error: unexpected error", "info: consumer closed">>)
    /\ UNCHANGED <<fileVars, cursor, line, author_counts, history, seekPos,
                   startMissing, everRead, handed>>

ConsumerStep ==
    \/ ConsumerCheckExists
    \/ ConsumerOpen
    \/ ConsumerSeek
    \/ ConsumerReadline
    \/ ConsumerSleep
    \/ ProcessMessage
    \/ UpdateChart
    \/ Redraw
    \/ RedrawRaises

(***************************************************************************)
(* Specifications                                                          *)
(***************************************************************************)

\* Every write reaches the file whole, as one line.
Next ==
    \/ ProducerWrite
    \/ ProducerWriteFails
    \/ OtherWrite
    \/ ConsumerStep
    \/ ConsumerInterrupt
    \/ ConsumerUnexpectedError

Spec == Init /\ [][Next]_vars

\* The consumer is not interrupted and its file calls do not fail, and main
\* keeps running: its loop has no blocking call but the half-second sleep.
\* A producer that has stopped writes nothing more, which the bound on the
\* lines written covers.
NextRunning ==
    \/ ProducerWrite
    \/ OtherWrite
    \/ ConsumerStep

FairSpec == Init /\ [][NextRunning]_vars /\ WF_vars(ConsumerStep)

\* A write may become visible to the reader in two parts.
NextTorn ==
    \/ Next
    \/ ProducerWriteFirstPart
    \/ ProducerWriteRest

TornSpec == Init /\ [][NextTorn]_vars

(***************************************************************************)
(* Vocabulary of the properties                                            *)
(***************************************************************************)

IsBlank(text) == \A i \in 1..Len(text) : IsSpace(text[i])

IsPrefix(a, b) ==
    /\ Len(a) <= Len(b)
    /\ \A i \in 1..Len(a) : a[i] = b[i]

Last(q) == q[Len(q)]

\* A written line that went into the file at or after the consumer's seek.
AfterSeek(a) == seekPos >= 0 /\ a.pos >= seekPos

NonBlankAfterSeek(a) == AfterSeek(a) /\ ~IsBlank(a.text)

\* The text holds a bare word, which no JSON text of this alphabet does.
HasWord(text) == \E i \in 1..Len(text) : text[i].k = "word"

\* json.loads has been applied to the written line a.
Parsed(a) ==
    \E j \in 1..Len(handed) :
        /\ handed[j] = a
        /\ (j < Len(handed) \/ cpc # "process")

\* process_message has returned for the written line a.
Processed(a) ==
    \E j \in 1..Len(handed) :
        /\ handed[j] = a
        /\ (j < Len(handed) \/ cpc \in {"read", "sleep"})

\* The line is a JSON object with a number under key.
HasNumber(text, key) ==
    LET r == json_loads(text)
    IN  r.isdict /\ key \in DOMAIN r.d /\ r.d[key].k = "num"

RECURSIVE SumOver(_, _)
SumOver(f, S) ==
    IF S = {} THEN 0
    ELSE LET x == CHOOSE y \in S : TRUE
         IN  f[x] + SumOver(f, S \ {x})

SumCounts == SumOver(author_counts, DOMAIN author_counts)

Series == {"heart_rate", "steps", "exercise_duration", "exercise_distance"}

NothingCharted ==
    /\ author_counts = EmptyDict
    /\ history.msg_count = 0
    /\ \A k \in Series : history[k] = <<>>

(***************************************************************************)
(* Properties                                                              *)
(***************************************************************************)

\* C1: when every write reaches the file as one whole line, the lines given
\* to process_message are at every moment a prefix of the non-blank lines
\* written at or after the consumer's seek to the end: none is given twice,
\* none is skipped, and they come in the order written.
C1_HandedIsPrefixOfWritten ==
    /\ seekPos < 0 => handed = <<>>
    /\ seekPos >= 0 => IsPrefix(handed, SelectSeq(appended, NonBlankAfterSeek))

C1_Witness ==
    /\ Len(handed) = 2
    /\ handed = SelectSeq(appended, NonBlankAfterSeek)
    /\ cpc = "read"

\* C2: with the consumer's loop running and no interruption, every line of
\* valid JSON written after the seek is eventually decoded by
\* process_message, whatever blank or malformed lines come before it.
C2_ValidLineEventuallyParsed ==
    \A i \in 1..MaxLines :
        (/\ i <= Len(appended)
         /\ AfterSeek(appended[i])
         /\ json_loads(appended[i].text).ok)
        ~> (i <= Len(appended) /\ Parsed(appended[i]))

C2_Witness ==
    \E m, v \in 1..Len(appended) :
        /\ m < v
        /\ AfterSeek(appended[m])
        /\ IsBlank(appended[m].text) \/ HasWord(appended[m].text)
        /\ json_loads(appended[v].text).ok
        /\ Parsed(appended[v])

\* C3: a line that was in the file when the consumer sought to its end is
\* never given to process_message; all that the consumer counts and charts
\* comes from lines written after the seek.
C3_PreexistingNeverSeen ==
    /\ seekPos < 0 => handed = <<>> /\ NothingCharted
    /\ seekPos >= 0 =>
          /\ \A j \in 1..Len(handed) : handed[j].pos >= seekPos
          /\ \A i \in 1..Len(appended) :
                appended[i].pos < seekPos =>
                    \A j \in 1..Len(handed) : handed[j] # appended[i]
          /\ SumCounts <= Len(handed)
          /\ history.msg_count <= Len(handed)
          /\ \A k \in Series : Len(history[k]) <= Len(handed)

C3_Witness ==
    /\ seekPos > 0
    /\ \E i \in 1..Len(appended) : appended[i].pos < seekPos
    /\ \E i \in 1..Len(appended) : Processed(appended[i])
    /\ history.msg_count >= 1

\* C4: when update_chart runs for a line that is a JSON object with a
\* number v under "heart_rate", the heart_rate series gains one entry, v.
C4_HeartRateRecorded ==
    [][(cpc = "chart" /\ cpc' = "redraw" /\ HasNumber(line, "heart_rate"))
        => history'.heart_rate =
              Append(history.heart_rate, json_loads(line).d["heart_rate"])]_vars

\* C5: when all the lines processed so far are steps records, the steps
\* series holds their values in the order written.
C5_StepsInOrder ==
    (/\ cpc \in {"read", "sleep"}
     /\ handed # <<>>
     /\ \A j \in 1..Len(handed) : HasNumber(handed[j].text, "steps"))
    => history.steps =
          [j \in 1..Len(handed) |-> json_loads(handed[j].text).d["steps"]]

\* C6: a line that fails to decode does not stop the loop: process_message
\* returns to the read loop, and a line of valid JSON written after it is
\* still read and processed.
C6_MalformedDoesNotHalt ==
    /\ [][(cpc = "process" /\ cpc' # "process" /\ ~json_loads(line).ok)
            => cpc' = "read"]_vars
    /\ \A j \in 1..MaxLines :
          (/\ j <= Len(appended)
           /\ json_loads(appended[j].text).ok
           /\ \E i \in 1..(j - 1) :
                 /\ AfterSeek(appended[i])
                 /\ ~IsBlank(appended[i].text)
                 /\ ~json_loads(appended[i].text).ok)
          ~> (j <= Len(appended) /\ Processed(appended[j]))

C6_Witness ==
    \E i, j \in 1..Len(appended) :
        /\ i < j
        /\ HasWord(appended[i].text)
        /\ Processed(appended[i])
        /\ json_loads(appended[j].text).isdict
        /\ Processed(appended[j])
        /\ history.msg_count >= 1

\* C7: processing a line that is not JSON logs the decode error and changes
\* neither a history series, nor msg_count, nor author_counts.
C7_DecodeErrorChangesNothing ==
    [][(cpc = "process" /\ ~json_loads(line).ok
            /\ cpc' \notin {"process", "closed"})
        => /\ cpc' = "read"
           /\ clog' = Append(clog, "error: invalid JSON message")
           /\ history' = history
           /\ author_counts' = author_counts]_vars

C7_Witness ==
    /\ cpc = "read"
    /\ handed # <<>>
    /\ HasWord(Last(handed).text)
    /\ clog # <<>>
    /\ Last(clog) = "error: invalid JSON message"
    /\ history.msg_count >= 1
    /\ SumCounts >= 1

\* C8: if the file is absent when the consumer starts, the consumer logs an
\* error and exits: it never opens the file, never reads and never processes
\* a message, also when the file is created later.
C8_MissingFileIsFatal ==
    startMissing =>
        /\ cpc = "exited"
        /\ fh = "unopened"
        /\ ~everRead
        /\ seekPos < 0
        /\ handed = <<>>
        /\ NothingCharted
        /\ clog = <<"error: data file does not exist">>

C8_Witness ==
    /\ startMissing
    /\ fileExists
    /\ Len(appended) = MaxLines

\* C9: text at the end of the file that no newline ends yet is not given to
\* process_message and not consumed: every line handed over ends with its
\* newline, and the cursor never stands inside a line.
C9_PartialLineNotReady ==
    /\ \A j \in 1..Len(handed) : Last(handed[j].text) = NL
    /\ cursor > seekPos /\ seekPos >= 0 => file[cursor] = NL

\* C10: the four history series always have the same length, msg_count.
C10_SeriesAligned ==
    \A k \in Series : Len(history[k]) = history.msg_count

C10_Witness ==
    /\ history.msg_count >= 2
    /\ cpc = "read"

(***************************************************************************)
(* Vocabulary of the properties, continued                                 *)
(***************************************************************************)

\* The two states of the consumer's loop.
Waiting == {"read", "sleep"}
Processing == {"process", "chart", "redraw"}
InLoop == Waiting \cup Processing

\* The log lines with which main leaves its try block.
ShutdownLogs ==
    { <<"info: interrupted by user", "info: consumer closed">>,
      <<"error: unexpected error", "info: consumer closed">> }

\* process_message calls update_chart for this line: it is a JSON object
\* whose author can be counted.
Dispatches(text) ==
    LET r == json_loads(text)
    IN  r.isdict /\ Hashable(DictGet(r.d, "author", Str("unknown")))

NumDispatched == Cardinality({j \in 1..Len(handed) : Dispatches(handed[j].text)})

\* The line is JSON for a value that is no object.
IsNonObjectJson(text) ==
    LET t == strip(text)
    IN  \/ Len(t) = 1 /\ IsScalar(t[1])
        \/ Len(t) = 2 /\ IsEmptyArray(t, 1)

IsProducerLine(a) == a.text \in ProducerLines
ProducerWritten == SelectSeq(appended, IsProducerLine)

ProducerFailed ==
    \E i \in 1..Len(plog) : plog[i] = "error: unexpected error"

\* The text a step added at the end of the file.
Added == SubSeq(file', Len(file) + 1, Len(file'))

\* One line, ended by its only newline, that is a JSON object with a type
\* of UPDATE_TYPE.
IsTypedRecordLine(l) ==
    /\ l # <<>>
    /\ \A i \in 1..Len(l) : (l[i] = NL) <=> (i = Len(l))
    /\ LET r == json_loads(l)
       IN  /\ r.isdict
           /\ "type" \in DOMAIN r.d
           /\ r.d["type"].k = "str"
           /\ \E t \in 1..Len(UPDATE_TYPE) : r.d["type"].s = UPDATE_TYPE[t]

(***************************************************************************)
(* Properties, continued                                                   *)
(***************************************************************************)

\* C11: an exception raised while a message is processed, other than a
\* decode failure, stays inside process_message: no step of processing
\* leaves the loop, and a line written after the failed one is still
\* processed.
C11_FaultIsolation ==
    /\ [][(cpc \in Processing) => (cpc' \in Processing \cup {"read"})]_vars
    /\ \A k \in 1..MaxLines :
          (/\ k <= Len(appended)
           /\ ~IsBlank(appended[k].text)
           /\ \E j \in 1..Len(handed) :
                 /\ j <= Len(clog)
                 /\ clog[j] = "error: processing message"
                 /\ handed[j].pos < appended[k].pos)
          ~> (k <= Len(appended) /\ Processed(appended[k]))

C11_Witness ==
    /\ Len(handed) = 2
    /\ Len(clog) = 2
    /\ clog[1] = "error: processing message"
    /\ Dispatches(handed[1].text)
    /\ cpc = "read"
    /\ history.msg_count = 2

\* C12: an interruption can arrive in every state of the loop; it, and an
\* unexpected exception, end main gracefully: the shutdown is logged last,
\* interactive plotting is off, the file is closed, and nothing more is read
\* or processed.
C12_GracefulShutdown ==
    /\ [](cpc \in InLoop => ENABLED ConsumerInterrupt)
    /\ [](cpc = "closed" =>
            /\ ~plt_interactive
            /\ fh # "open"
            /\ Len(clog) >= 2
            /\ SubSeq(clog, Len(clog) - 1, Len(clog)) \in ShutdownLogs)
    /\ [][(cpc # "closed" /\ cpc' = "closed") =>
            /\ \E x \in ShutdownLogs : clog' = clog \o x
            /\ <<cursor, line, handed, author_counts, history>>' =
                  <<cursor, line, handed, author_counts, history>>]_vars
    /\ [][cpc = "closed" => consumerVars' = consumerVars]_vars

C12_Witness ==
    /\ cpc = "closed"
    /\ clog = <<"info: interrupted by user", "info: consumer closed">>
    /\ Len(handed) = 1
    /\ SumCounts = 1
    /\ history.msg_count = 1
    /\ cursor < Len(file)

\* C13: the file only grows at its end, whoever takes a step, and a write
\* of the producer adds exactly one newline-terminated line that is a JSON
\* object with a type of UPDATE_TYPE.
C13_AppendOnlyLog ==
    [][/\ IsPrefix(file, file')
       /\ plog' = Append(plog, "info: message") => IsTypedRecordLine(Added)]_vars

C13_Witness ==
    /\ Len(plog) = 2
    /\ ppc = "run"
    /\ Len(ProducerWritten) = 2
    /\ cursor = Len(file)
    /\ Len(handed) = 1

\* C14: after a failed write the producer has logged the error and then its
\* shutdown, has stopped, and writes no further line.
C14_WriteFailureStopsProducer ==
    /\ [](ProducerFailed =>
            /\ ppc = "done"
            /\ Len(plog) >= 2
            /\ SubSeq(plog, Len(plog) - 1, Len(plog)) =
                  <<"error: unexpected error", "info: producer shutting down">>)
    /\ [][ProducerFailed =>
            /\ plog' = plog
            /\ ppc' = ppc
            /\ ProducerWritten' = ProducerWritten]_vars

C14_Witness ==
    /\ ProducerFailed
    /\ Len(ProducerWritten) = 1
    /\ Len(appended) = 2
    /\ appended[1].text \in ProducerLines

\* C15: in its loop the consumer is waiting or processing; processing
\* starts only from a read that returned a line not empty after strip(),
\* every way out of processing leads back to waiting unless the consumer is
\* interrupted, and the loop is left only by an interruption or an
\* unexpected exception.
C15_TwoStateLoop ==
    /\ [](seekPos >= 0 => cpc \in InLoop \cup {"closed"})
    /\ [][(cpc \notin Processing /\ cpc' \in Processing) =>
            /\ cpc = "read"
            /\ cpc' = "process"
            /\ line' = readline(file, cursor)
            /\ strip(line') # <<>>]_vars
    /\ [][(cpc = "read" /\ cpc' \in Waiting \ {"read"}) =>
            strip(line') = <<>>]_vars
    /\ [][(cpc \in Processing /\ cpc' \notin Processing) =>
            \/ cpc' = "read"
            \/ /\ cpc' = "closed"
               /\ clog' = clog \o <<"info: interrupted by user",
                                    "info: consumer closed">>]_vars
    /\ [][(cpc \in InLoop /\ cpc' \notin InLoop) =>
            /\ cpc' = "closed"
            /\ \E x \in ShutdownLogs : clog' = clog \o x]_vars

C15_Witness ==
    /\ cpc = "sleep"
    /\ Len(handed) = 2
    /\ clog = <<"error: invalid JSON message", "info: chart updated">>

\* C16: the cursor is at the end of the file after the seek, never moves
\* back, never passes the end of the file, moves only by the length of the
\* text a read returned, and stays where it is on an empty read and across
\* the sleep.
C16_CursorMonotone ==
    /\ [](cursor <= Len(file))
    /\ [][cursor' >= cursor]_vars
    /\ [][(cpc = "seek" /\ cpc' = "read") => cursor' = Len(file)]_vars
    /\ [][(seekPos >= 0 /\ cursor' # cursor) =>
            /\ cpc = "read"
            /\ line' # <<>>
            /\ line' = SubSeq(file, cursor + 1, cursor')]_vars
    /\ [][(cpc = "read" /\ cpc' = "sleep" /\ line' = <<>>) =>
            cursor' = cursor]_vars
    /\ [][cpc = "sleep" => cursor' = cursor]_vars

C16_Witness ==
    /\ seekPos > 0
    /\ cursor > seekPos
    /\ cursor = Len(file)
    /\ cpc = "read"
    /\ line = <<>>
    /\ everRead

\* C17: a line of valid JSON that is no object is consumed without a chart
\* update: the error is logged, author_counts and history stay as they
\* were, and the consumer is back at its read.
C17_NonObjectNotDispatched ==
    [][(cpc = "process" /\ IsNonObjectJson(line)
            /\ cpc' \notin {"process", "closed"})
        => /\ cpc' = "read"
           /\ clog' = Append(clog, "error: expected a dictionary")
           /\ history' = history
           /\ author_counts' = author_counts]_vars

C17_Witness ==
    /\ cpc = "read"
    /\ Len(handed) = 2
    /\ IsNonObjectJson(handed[2].text)
    /\ clog = <<"info: chart updated", "error: expected a dictionary">>
    /\ history.msg_count = 1

\* C18: whenever process_message has returned, the counts of author_counts
\* add up to msg_count, which is the number of lines dispatched to
\* update_chart so far; other lines count nowhere.
C18_CountsAgree ==
    cpc \in Waiting =>
        /\ SumCounts = history.msg_count
        /\ history.msg_count = NumDispatched

C18_Witness ==
    /\ cpc = "read"
    /\ Len(handed) = 2
    /\ NumDispatched = 1
    /\ SumCounts = 1
    /\ ~json_loads(handed[1].text).ok

\* C19: when the redraw raises, what update_chart recorded for the message
\* stays: the handler changes neither author_counts nor history, so the
\* counts and the series lengths still agree after the failed message.
C19_FailedRedrawKeepsBookkeeping ==
    /\ [][(cpc = "redraw" /\ cpc' = "read"
              /\ clog' = Append(clog, "error: processing message"))
          => /\ history' = history
             /\ author_counts' = author_counts]_vars
    /\ [](/\ cpc \in Waiting
          /\ handed # <<>>
          /\ Dispatches(Last(handed).text)
          /\ Last(clog) = "error: processing message"
          => /\ history.msg_count = NumDispatched
             /\ SumCounts = NumDispatched
             /\ \A k \in Series : Len(history[k]) = NumDispatched)

C19_Witness ==
    /\ cpc = "read"
    /\ Len(handed) = 2
    /\ clog = <<"info: chart updated", "error: processing message">>
    /\ Dispatches(handed[2].text)
    /\ history.msg_count = 2

====
